---------------------------- MODULE Spec2Model ----------------------------
(***************************************************************************)
(* A model of ramdisk.c, the SPANK plugin that adds `--ramdisk` to SLURM:  *)
(* the option callback parse_ramdisk_size, the path resolver get_directory *)
(* and the two hooks slurm_spank_init_post_opt (Provision) and             *)
(* slurm_spank_exit (Teardown), run by several plugin processes against    *)
(* one node filesystem.                                                    *)
(*                                                                         *)
(* uint64_t and uint32_t values are kept at their width.  TLC's integers   *)
(* are 32 bits wide, so an unsigned value is a tuple of 16-bit limbs, most *)
(* significant first: <<0, 0, 0, 2048>> is the uint64_t 2048.              *)
(***************************************************************************)
EXTENDS Integers, Sequences, FiniteSets, TLC

(***************************************************************************)
(* Unsigned arithmetic on limb tuples.                                     *)
(***************************************************************************)
LimbBase == 2 ^ 16

\* uint64_t: four limbs (ramdisk_size, step_memory_allocation).
UINT64_LIMBS == 4

\* uint32_t: two limbs (job_id, job_stepid).
UINT32_LIMBS == 2

\* The k-limb value of a small natural n (n < 2^31).
ToNum(n, k) ==
    [i \in 1..k |-> IF i = k THEN n % LimbBase
                    ELSE IF i = k - 1 THEN n \div LimbBase
                    ELSE 0]

U64(n) == ToNum(n, UINT64_LIMBS)

U32(n) == ToNum(n, UINT32_LIMBS)

IsZero(x) == \A i \in 1..Len(x) : x[i] = 0

\* x < y for two values of the same width.
NumLess(x, y) ==
    \E i \in 1..Len(x) :
        /\ x[i] < y[i]
        /\ \A j \in 1..(i - 1) : x[j] = y[j]

NumLeq(x, y) == x = y \/ NumLess(x, y)

\* The carry into limb i when x * m + a is computed from the least
\* significant limb upwards; CarryInto(x, m, a, 0) is the carry out of the
\* most significant limb, which fixed-width arithmetic drops.
RECURSIVE CarryInto(_, _, _, _)
CarryInto(x, m, a, i) ==
    IF i = Len(x) THEN a
    ELSE (x[i + 1] * m + CarryInto(x, m, a, i + 1)) \div LimbBase

\* (x * m + a) modulo 2^(16 * Len(x)): C's unsigned multiplication.
MulAdd(x, m, a) ==
    [i \in 1..Len(x) |-> (x[i] * m + CarryInto(x, m, a, i)) % LimbBase]

\* The remainder carried into limb i when x is divided by 10 from the most
\* significant limb downwards.
RECURSIVE RemInto(_, _)
RemInto(x, i) ==
    IF i = 1 THEN 0
    ELSE (RemInto(x, i - 1) * LimbBase + x[i - 1]) % 10

Div10(x) ==
    [i \in 1..Len(x) |-> (RemInto(x, i) * LimbBase + x[i]) \div 10]

Mod10(x) == RemInto(x, Len(x) + 1)

\* Two's complement negation, what strtoul does with a leading '-'.
Negate(x) ==
    MulAdd([i \in 1..Len(x) |-> LimbBase - 1 - x[i]], 1, 1)

(***************************************************************************)
(* Characters and decimal conversions (printf's %u, scanf's %lu).          *)
(***************************************************************************)
Char(s, i) == SubSeq(s, i, i)

\* The decimal digits: DigitChars[d + 1] is the character of digit d.
DigitChars == <<"0", "1", "2", "3", "4", "5", "6", "7", "8", "9">>

IsDigit(c) == \E d \in 1..10 : DigitChars[d] = c

DigitValue(c) == (CHOOSE d \in 1..10 : DigitChars[d] = c) - 1

\* isspace() in the C locale (TLA+ strings have no escape for \v).
IsSpace(c) == c \in {" ", "\t", "\n", "\r", "\f"}

\* The decimal digits of a natural number below LimbBase.
RECURSIVE FormatLimb(_)
FormatLimb(n) ==
    IF n < 10 THEN DigitChars[n + 1]
    ELSE FormatLimb(n \div 10) \o DigitChars[(n % 10) + 1]

\* A faulty variant of FormatUnsigned: the conversion is too narrow (as
\* with "%hu") and prints the low 16 bits only.
FormatUnsigned_Narrow(x) == FormatLimb(x[Len(x)])

\* printf("%" PRIu32) / printf("%" PRIu64): the decimal digits of x, no
\* leading zeros, "0" for zero.
RECURSIVE FormatUnsigned(_)
FormatUnsigned(x) ==
    IF IsZero(Div10(x)) THEN DigitChars[Mod10(x) + 1]
    ELSE FormatUnsigned(Div10(x)) \o DigitChars[Mod10(x) + 1]

\* The value of a string of decimal digits, accumulated in 64 bits.
RECURSIVE DigitsValue(_)
DigitsValue(s) ==
    IF s = "" THEN U64(0)
    ELSE MulAdd(DigitsValue(SubSeq(s, 1, Len(s) - 1)), 10,
                DigitValue(Char(s, Len(s))))

\* The first index at or after i whose character is not white space
\* (Len(s) + 1 when there is none).
RECURSIVE SkipSpace(_, _)
SkipSpace(s, i) ==
    IF i <= Len(s) /\ IsSpace(Char(s, i)) THEN SkipSpace(s, i + 1) ELSE i

\* The first index at or after i whose character is not a digit.
RECURSIVE SkipDigits(_, _)
SkipDigits(s, i) ==
    IF i <= Len(s) /\ IsDigit(Char(s, i)) THEN SkipDigits(s, i + 1) ELSE i


(***************************************************************************)
(* Program constants.                                                      *)
(***************************************************************************)
DIRECTORY_PATH_LEN == 255

MOUNT_OPTION_LEN == 255

UNIT_MEGABYTES == "M"

UNIT_GIGABYTES == "G"

\* <stdio.h>: sscanf's result when the input ends before the first conversion.
EOF == -1

\* <slurm/slurm.h>: the reserved step ids, as uint32_t values.
SLURM_MAX_NORMAL_STEP_ID == <<65535, 65520>>  \* 0xfffffff0

SLURM_PENDING_STEP == <<65535, 65533>>        \* 0xfffffffd

SLURM_EXTERN_CONT == <<65535, 65532>>         \* 0xfffffffc

SLURM_BATCH_SCRIPT == <<65535, 65531>>        \* 0xfffffffb

SLURM_INTERACTIVE_STEP == <<65535, 65530>>    \* 0xfffffffa

\* snprintf(buf, size, ...): at most size - 1 characters are stored.
Snprintf(size, s) == IF Len(s) < size THEN s ELSE SubSeq(s, 1, size - 1)

\* printf("%d") of a 32-bit value: the argument is read as a signed int.
FormatSigned(x) ==
    IF x[1] >= LimbBase \div 2 THEN "-" \o FormatUnsigned(Negate(x))
    ELSE FormatUnsigned(x)

(***************************************************************************)
(* Size Parser: parse_ramdisk_size, the `--ramdisk` option callback.       *)
(***************************************************************************)
\* sscanf(optarg, "%" PRIu64 "%c", &ramdisk_size, &ramdisk_unit): the number
\* of items assigned and their values.  %lu skips white space, takes an
\* optional sign and the longest run of digits; %c takes the next character,
\* whatever it is, and the rest of the input is not looked at.
Sscanf(optarg) ==
    LET n     == Len(optarg)
        ws    == SkipSpace(optarg, 1)
        sign  == IF ws <= n /\ Char(optarg, ws) \in {"+", "-"}
                 THEN Char(optarg, ws) ELSE ""
        d0    == ws + Len(sign)
        d1    == SkipDigits(optarg, d0)
        mag   == DigitsValue(SubSeq(optarg, d0, d1 - 1))
        value == IF sign = "-" THEN Negate(mag) ELSE mag
    IN  IF d1 = d0
        THEN [n_args |-> IF d0 > n THEN EOF ELSE 0,
              size |-> U64(0), unit |-> ""]
        ELSE IF d1 > n
        THEN [n_args |-> 1, size |-> value, unit |-> ""]
        ELSE [n_args |-> 2, size |-> value, unit |-> Char(optarg, d1)]

\* A faulty variant of ParseRamdiskSize: a rejected argument leaves
\* ramdisk_size as it was.
ParseRamdiskSize_KeepsOnReject(size, optarg) ==
    LET scan      == Sscanf(optarg)
        unitOk    == \/ scan.n_args = 1
                     \/ /\ scan.n_args = 2
                        /\ scan.unit \in {UNIT_GIGABYTES, UNIT_MEGABYTES}
        megabytes == IF scan.n_args = 2 /\ scan.unit = UNIT_GIGABYTES
                     THEN MulAdd(scan.size, 1024, 0)
                     ELSE scan.size
    IN  IF ~unitOk \/ IsZero(megabytes)
        THEN [ret |-> "ESPANK_ERROR", ramdisk_size |-> size]
        ELSE [ret |-> "ESPANK_SUCCESS", ramdisk_size |-> megabytes]

\* parse_ramdisk_size(val, optarg, remote) with the process-wide
\* ramdisk_size holding `size` on entry: the return code and ramdisk_size on
\* return.  sscanf writes ramdisk_size as soon as the integer converts.
ParseRamdiskSize(size, optarg) ==
    LET scan      == Sscanf(optarg)
        stored    == IF scan.n_args \in {1, 2} THEN scan.size ELSE size
        unitOk    == \/ scan.n_args = 1
                     \/ /\ scan.n_args = 2
                        /\ scan.unit \in {UNIT_GIGABYTES, UNIT_MEGABYTES}
        megabytes == IF scan.n_args = 2 /\ scan.unit = UNIT_GIGABYTES
                     THEN MulAdd(stored, 1024, 0)
                     ELSE stored
    IN  IF ~unitOk
        THEN [ret |-> "ESPANK_ERROR", ramdisk_size |-> stored]
        ELSE IF IsZero(megabytes)
        THEN [ret |-> "ESPANK_ERROR", ramdisk_size |-> megabytes]
        ELSE [ret |-> "ESPANK_SUCCESS", ramdisk_size |-> megabytes]

(***************************************************************************)
(* Path Resolver: get_directory.                                           *)
(***************************************************************************)
\* A faulty variant of IsReservedStep: the comparison includes
\* SLURM_MAX_NORMAL_STEP_ID itself.
IsReservedStep_Inclusive(job_stepid) ==
    NumLeq(SLURM_MAX_NORMAL_STEP_ID, job_stepid)

\* Line 259: job_stepid > SLURM_MAX_NORMAL_STEP_ID.
IsReservedStep(job_stepid) == NumLess(SLURM_MAX_NORMAL_STEP_ID, job_stepid)

\* get_directory(sp, directory): jobOk and stepOk say whether
\* spank_get_item delivered S_JOB_ID and S_JOB_STEPID.
GetDirectory(jobOk, job_id, stepOk, job_stepid) ==
    LET job == FormatUnsigned(job_id)
        Path(suffix) ==
            [rc |-> "EXIT_SUCCESS",
             directory |-> Snprintf(DIRECTORY_PATH_LEN,
                                    "/ramdisks/" \o job \o suffix)]
        Failure == [rc |-> "EXIT_FAILURE", directory |-> ""]
    IN  IF ~jobOk THEN Failure
        ELSE IF ~stepOk THEN Failure
        ELSE IF IsReservedStep(job_stepid)
        THEN IF job_stepid = SLURM_PENDING_STEP THEN Failure
             ELSE IF job_stepid = SLURM_EXTERN_CONT
             THEN Path(".extern.ramdisk")
             ELSE IF job_stepid = SLURM_BATCH_SCRIPT
             THEN Path(".batch.ramdisk")
             ELSE IF job_stepid = SLURM_INTERACTIVE_STEP
             THEN Path(".interactive.ramdisk")
             ELSE Failure
        ELSE Path("." \o FormatUnsigned(job_stepid) \o ".ramdisk")

\* A faulty variant of MountOptions: the size is written without its unit,
\* which tmpfs reads as bytes.
MountOptions_NoUnit(size, uid, gid) ==
    Snprintf(MOUNT_OPTION_LEN,
             "size=" \o FormatUnsigned(size) \o ",uid=" \o FormatSigned(uid)
                 \o ",gid=" \o FormatSigned(gid) \o ",mode=700")

\* The mount data of line 156:
\* "size=%" PRIu64 "M,uid=%d,gid=%d,mode=700".
MountOptions(size, uid, gid) ==
    Snprintf(MOUNT_OPTION_LEN,
             "size=" \o FormatUnsigned(size) \o "M,uid=" \o FormatSigned(uid)
                 \o ",gid=" \o FormatSigned(gid) \o ",mode=700")


(***************************************************************************)
(* The state: plugin processes on one node.                                *)
(***************************************************************************)
\* The processes that load the plugin (slurmstepd, srun, sbatch).
Procs == {1, 2}

\* spank_context() of a process.
Contexts == {"S_CTX_ALLOCATOR", "S_CTX_LOCAL", "S_CTX_REMOTE"}

\* The hook invocations one behaviour starts, all processes together.
MaxCalls == 3

\* The times one behaviour runs the option callback, all processes
\* together.
MaxOptions == 2

\* The calls one behaviour lets fail for a reason outside the model: a
\* Scheduler Bridge query or spank_setenv that fails, stat() failing on a
\* path that exists, mkdir() on a free path, mount() on a directory,
\* umount() of a mounted path, rmdir() of an unmounted directory.
MaxFaults == 1

\* The scheduling units of the lifecycle specifications: step 0 and the
\* batch step of job 100.
Identities ==
    {[job_id |-> U32(100), job_stepid |-> U32(0)],
     [job_id |-> U32(100), job_stepid |-> SLURM_BATCH_SCRIPT]}

\* The `--ramdisk` argument of the lifecycle specifications: 1024M.
HookOptargs == {"1G"}

\* S_STEP_ALLOC_MEM answers: below the capacity, equal to it, one above it.
Allocations == {U64(1023), U64(1024), U64(1025)}

\* S_JOB_UID and S_JOB_GID answers.
Uids == {U32(1000)}

Gids == {U32(100)}

\* What the Scheduler Bridge and spank_setenv answer during one hook.
BridgeAnswers ==
    [allocOk : BOOLEAN, alloc : Allocations, jobOk : BOOLEAN,
     stepOk : BOOLEAN, setenvOk : BOOLEAN, uidOk : BOOLEAN, uid : Uids,
     gidOk : BOOLEAN, gid : Gids]

\* The answers of a hook that asks for nothing.
NoAnswers ==
    [allocOk |-> TRUE, alloc |-> U64(1023), jobOk |-> TRUE, stepOk |-> TRUE,
     setenvOk |-> TRUE, uidOk |-> TRUE, uid |-> U32(1000), gidOk |-> TRUE,
     gid |-> U32(100)]

\* slurm_spank_init_post_opt asks in the order allocation, job id, step id,
\* setenv, uid, gid and stops at the first fatal failure: the answers to
\* what it no longer asks are not drawn (they stay as in NoAnswers).
ProvisionAnswers ==
    {in \in BridgeAnswers :
        LET a1 == in.allocOk
            a2 == a1 /\ in.jobOk
            a3 == a2 /\ in.stepOk
            a4 == a3 /\ in.uidOk
        IN  in = [allocOk  |-> in.allocOk,
                  alloc    |-> IF a1 THEN in.alloc ELSE NoAnswers.alloc,
                  jobOk    |-> a1 => in.jobOk,
                  stepOk   |-> a2 => in.stepOk,
                  setenvOk |-> a3 => in.setenvOk,
                  uidOk    |-> a3 => in.uidOk,
                  uid      |-> IF a4 THEN in.uid ELSE NoAnswers.uid,
                  gidOk    |-> a4 => in.gidOk,
                  gid      |-> IF a4 /\ in.gidOk THEN in.gid
                               ELSE NoAnswers.gid]}

\* slurm_spank_exit asks for the job id and the step id only.
TeardownAnswers ==
    {in \in BridgeAnswers :
        in = [NoAnswers EXCEPT !.jobOk = in.jobOk,
                               !.stepOk = in.jobOk => in.stepOk]}

NoEnv == "(unset)"

NoFrame == [directory |-> "", uid |-> U32(0), gid |-> U32(0)]

NoCall == [hook |-> "none"]

NoParse ==
    [proc |-> 0, optarg |-> "", before |-> U64(0), ret |-> "",
     after |-> U64(0)]

VARIABLES
    context,       \* context[p]: spank_context() of process p
    ident,         \* ident[p]: the S_JOB_ID and S_JOB_STEPID of process p
    ramdisk_size,  \* ramdisk_size[p]: the static uint64_t of line 40
    env,           \* env[p]: SLURM_JOB_RAMDISK in the job environment of p
    pc,            \* pc[p]: where process p is in its hook
    frame,         \* frame[p]: the locals directory, uid and gid of the hook
    nodes,         \* the node's filesystem: path -> "dir" or "file"
    mtab,          \* the node's mount table, oldest mount first
    options,       \* option callbacks run so far
    calls,         \* hook invocations started so far
    faults,        \* calls that failed for an outside reason so far
    cur,           \* history: cur[p], the running invocation of p
    last,          \* history: the invocation that returned last
    parsed         \* history: the last call of the option callback, until
                   \* a hook starts

vars == <<context, ident, ramdisk_size, env, pc, frame, nodes, mtab, options,
          calls, faults, cur, last, parsed>>

\* The filesystem entries and mounts, as one value.
Disk == [nodes |-> nodes, mtab |-> mtab]

Exists(path) == path \in DOMAIN nodes

\* The indices of the mounts at path in the mount table.
MountsAt(table, path) == {i \in 1..Len(table) : table[i].dir = path}

\* The mount table without its entry i.
WithoutMount(table, i) ==
    [j \in 1..(Len(table) - 1) |-> IF j < i THEN table[j] ELSE table[j + 1]]

Max(S) == CHOOSE x \in S : \A y \in S : y <= x

\* The calls of one kind among the calls an invocation made.
CallsOf(ops, name) == {i \in 1..Len(ops) : ops[i][1] = name}

\* The calls among `ops` that failed.
Failed(ops) == {i \in 1..Len(ops) : ~ops[i][2]}

\* A call's outcome ok, where `can` says whether the state of the node lets
\* the call succeed: a call that can succeed fails only for an outside
\* reason, and a call that cannot succeed fails.
Outcome(ok, can) ==
    /\ ok => can
    /\ IF can /\ ~ok
       THEN faults < MaxFaults /\ faults' = faults + 1
       ELSE faults' = faults


(***************************************************************************)
(* The hooks up to their first filesystem call.                            *)
(***************************************************************************)
\* A hook that returns before it touches the filesystem.
Stop(ret, fault, ops, alloc, setenv, directory) ==
    [ret |-> ret, fault |-> fault, ops |-> ops, alloc |-> alloc,
     setenv |-> setenv, directory |-> directory, uid |-> U32(0),
     gid |-> U32(0)]

\* The spank_get_item calls of get_directory (lines 250-257).
DirectoryOps(in) ==
    IF in.jobOk
    THEN <<<<"S_JOB_ID", TRUE>>, <<"S_JOB_STEPID", in.stepOk>>>>
    ELSE <<<<"S_JOB_ID", FALSE>>>>

\* Faulty variants of the decisions below.
\* The capacity gate is missing.
HookApplies_AnyCapacity(ctx, size) == ctx = "S_CTX_REMOTE"

\* The request may equal the allocation.
ExceedsAllocation_Strict(alloc, size) == NumLess(alloc, size)

\* The result of stat() is ignored and the directory is always created.
ProvisionAfterStat_AlwaysCreates(ok, kind) == "p_mkdir"

\* A directory that is there is mounted on again.
ProvisionAfterStat_MountsAgain(ok, kind) ==
    IF ok
    THEN IF kind # "dir" THEN "ESPANK_ERROR" ELSE "p_mount"
    ELSE "p_mkdir"

\* Whatever stat() finds is taken for the ramdisk directory.
ProvisionAfterStat_AnyEntry(ok, kind) ==
    IF ok THEN "ESPANK_SUCCESS" ELSE "p_mkdir"

\* Anything at the path, a directory too, is a conflict.
ProvisionAfterStat_DirectoryIsConflict(ok, kind) ==
    IF ok THEN "ESPANK_ERROR" ELSE "p_mkdir"

\* The result of stat() is ignored and the path is always unmounted.
TeardownAfterStat_AlwaysUnmounts(ok) == "t_umount"

\* The hook goes on to rmdir() after a failed umount().
TeardownAfterUmount_GoesOn(ok) == "t_rmdir"

\* A failed rmdir() fails the hook.
TeardownAfterRmdir_Fatal(ok) ==
    IF ok THEN "ESPANK_SUCCESS" ELSE "ESPANK_ERROR"

\* The Provision goes on without the uid of the job.
ProvisionChecks_UidOptional(ctx, size, id, in) ==
    LET res  == GetDirectory(in.jobOk, id.job_id, in.stepOk, id.job_stepid)
        ops1 == <<<<"S_STEP_ALLOC_MEM", in.allocOk>>>>
        ops2 == ops1 \o DirectoryOps(in)
        ops4 == ops2 \o <<<<"spank_setenv", in.setenvOk>>,
                          <<"S_JOB_UID", in.uidOk>>,
                          <<"S_JOB_GID", in.gidOk>>>>
    IN  IF ctx # "S_CTX_REMOTE" \/ IsZero(size)
        THEN Stop("ESPANK_SUCCESS", "", <<>>, U64(0), FALSE, "")
        ELSE IF ~in.allocOk
        THEN Stop("ESPANK_ERROR", "allocation", ops1, U64(0), FALSE, "")
        ELSE IF NumLeq(in.alloc, size)
        THEN Stop("ESPANK_ERROR", "capacity", ops1, in.alloc, FALSE, "")
        ELSE IF res.rc # "EXIT_SUCCESS"
        THEN Stop("ESPANK_ERROR", "directory", ops2, in.alloc, FALSE, "")
        ELSE [ret |-> "", fault |-> "", ops |-> ops4, alloc |-> in.alloc,
              setenv |-> in.setenvOk, directory |-> res.directory,
              uid |-> in.uid,
              gid |-> IF in.gidOk THEN in.gid ELSE Negate(U32(1))]

\* The Provision stops when the gid of the job cannot be read.
ProvisionChecks_GidFatal(ctx, size, id, in) ==
    LET res  == GetDirectory(in.jobOk, id.job_id, in.stepOk, id.job_stepid)
        ops1 == <<<<"S_STEP_ALLOC_MEM", in.allocOk>>>>
        ops2 == ops1 \o DirectoryOps(in)
        ops3 == ops2 \o <<<<"spank_setenv", in.setenvOk>>,
                          <<"S_JOB_UID", in.uidOk>>>>
        ops4 == ops3 \o <<<<"S_JOB_GID", in.gidOk>>>>
    IN  IF ctx # "S_CTX_REMOTE" \/ IsZero(size)
        THEN Stop("ESPANK_SUCCESS", "", <<>>, U64(0), FALSE, "")
        ELSE IF ~in.allocOk
        THEN Stop("ESPANK_ERROR", "allocation", ops1, U64(0), FALSE, "")
        ELSE IF NumLeq(in.alloc, size)
        THEN Stop("ESPANK_ERROR", "capacity", ops1, in.alloc, FALSE, "")
        ELSE IF res.rc # "EXIT_SUCCESS"
        THEN Stop("ESPANK_ERROR", "directory", ops2, in.alloc, FALSE, "")
        ELSE IF ~in.uidOk
        THEN Stop("ESPANK_ERROR", "uid", ops3, in.alloc, in.setenvOk,
                  res.directory)
        ELSE IF ~in.gidOk
        THEN Stop("ESPANK_ERROR", "gid", ops4, in.alloc, in.setenvOk,
                  res.directory)
        ELSE [ret |-> "", fault |-> "", ops |-> ops4, alloc |-> in.alloc,
              setenv |-> in.setenvOk, directory |-> res.directory,
              uid |-> in.uid, gid |-> in.gid]

\* Lines 77-86 and 169-178: a hook acts only in the slurmstepd (remote)
\* context and with a ramdisk requested.
HookApplies(ctx, size) == ctx = "S_CTX_REMOTE" /\ ~IsZero(size)

\* Line 97: the request is refused unless it is below the step's allocation.
ExceedsAllocation(alloc, size) == NumLeq(alloc, size)

\* Lines 136-148: where slurm_spank_init_post_opt goes after stat(), which
\* returned 0 (ok) for an entry of the given kind, or failed.
ProvisionAfterStat(ok, kind) ==
    IF ok
    THEN IF kind # "dir" THEN "ESPANK_ERROR" ELSE "ESPANK_SUCCESS"
    ELSE "p_mkdir"

\* Lines 189-197: where slurm_spank_exit goes after stat().
TeardownAfterStat(ok) == IF ok THEN "t_umount" ELSE "ESPANK_SUCCESS"

\* Lines 197-206: where slurm_spank_exit goes after umount().
TeardownAfterUmount(ok) == IF ok THEN "t_rmdir" ELSE "ESPANK_ERROR"

\* Lines 206-211: what slurm_spank_exit returns after rmdir(), whose failure
\* is only logged.
TeardownAfterRmdir(ok) == "ESPANK_SUCCESS"

\* slurm_spank_init_post_opt, lines 76-134: the role and capacity gates, the
\* allocation check, the path, the export and the owner.  ret = "" says the
\* hook goes on to stat().
ProvisionChecks(ctx, size, id, in) ==
    LET res   == GetDirectory(in.jobOk, id.job_id, in.stepOk, id.job_stepid)
        ops1  == <<<<"S_STEP_ALLOC_MEM", in.allocOk>>>>
        ops2  == ops1 \o DirectoryOps(in)
        ops3  == ops2 \o <<<<"spank_setenv", in.setenvOk>>,
                           <<"S_JOB_UID", in.uidOk>>>>
        ops4  == ops3 \o <<<<"S_JOB_GID", in.gidOk>>>>
    IN  IF ~HookApplies(ctx, size)
        THEN Stop("ESPANK_SUCCESS", "", <<>>, U64(0), FALSE, "")
        ELSE IF ~in.allocOk
        THEN Stop("ESPANK_ERROR", "allocation", ops1, U64(0), FALSE, "")
        ELSE IF ExceedsAllocation(in.alloc, size)
        THEN Stop("ESPANK_ERROR", "capacity", ops1, in.alloc, FALSE, "")
        ELSE IF res.rc # "EXIT_SUCCESS"
        THEN Stop("ESPANK_ERROR", "directory", ops2, in.alloc, FALSE, "")
        ELSE IF ~in.uidOk
        THEN Stop("ESPANK_ERROR", "uid", ops3, in.alloc, in.setenvOk,
                  res.directory)
        ELSE [ret |-> "", fault |-> "", ops |-> ops4, alloc |-> in.alloc,
              setenv |-> in.setenvOk, directory |-> res.directory,
              uid |-> in.uid,
              gid |-> IF in.gidOk THEN in.gid ELSE Negate(U32(1))]

\* slurm_spank_exit, lines 168-187: the gates and the path.
TeardownChecks(ctx, size, id, in) ==
    LET res == GetDirectory(in.jobOk, id.job_id, in.stepOk, id.job_stepid)
    IN  IF ~HookApplies(ctx, size)
        THEN Stop("ESPANK_SUCCESS", "", <<>>, U64(0), FALSE, "")
        ELSE IF res.rc # "EXIT_SUCCESS"
        THEN Stop("ESPANK_ERROR", "directory", DirectoryOps(in), U64(0),
                  FALSE, "")
        ELSE [ret |-> "", fault |-> "", ops |-> DirectoryOps(in),
              alloc |-> U64(0), setenv |-> FALSE,
              directory |-> res.directory, uid |-> U32(0), gid |-> U32(0)]

(***************************************************************************)
(* Actions.                                                                *)
(***************************************************************************)
\* The hook of p goes on: the history grows by the calls `ops`, and by the
\* outside failure among them if there is one.
Continue(p, place, ops) ==
    /\ pc' = [pc EXCEPT ![p] = place]
    /\ cur' = [cur EXCEPT ![p].ops = @ \o ops,
                           ![p].outside = @ + (faults' - faults)]
    /\ UNCHANGED <<frame, last>>

\* The hook of p returns `ret`, having made the calls `ops` since its last
\* step; `disk` is the filesystem it leaves.
Return(p, ret, fault, ops, disk) ==
    /\ pc' = [pc EXCEPT ![p] = "idle"]
    /\ frame' = [frame EXCEPT ![p] = NoFrame]
    /\ cur' = [cur EXCEPT ![p] = NoCall]
    /\ last' = [cur[p] EXCEPT !.ops = @ \o ops, !.ret = ret,
                              !.fault = fault, !.after = disk,
                              !.outside = @ + (faults' - faults)]

\* slurm_spank_init: the stale SLURM_JOB_RAMDISK is dropped and the option
\* is registered (every modelled context is one of the three that register).
SpankInit(p) ==
    /\ pc[p] = "start"
    /\ pc' = [pc EXCEPT ![p] = "options"]
    /\ env' = [env EXCEPT ![p] = NoEnv]
    /\ UNCHANGED <<context, ident, ramdisk_size, frame, nodes, mtab, options,
                   calls, faults, cur, last, parsed>>

\* The option callback runs with argument optarg: SLURM processes the
\* options after slurm_spank_init and before the first hook.
ParseOption(p, optarg) ==
    LET res == ParseRamdiskSize(ramdisk_size[p], optarg)
    IN  /\ pc[p] = "options"
        /\ options < MaxOptions
        /\ options' = options + 1
        /\ ramdisk_size' = [ramdisk_size EXCEPT ![p] = res.ramdisk_size]
        /\ parsed' = [proc |-> p, optarg |-> optarg,
                      before |-> ramdisk_size[p], ret |-> res.ret,
                      after |-> res.ramdisk_size]
        /\ UNCHANGED <<context, ident, env, pc, frame, nodes, mtab, calls,
                       faults, cur, last>>

\* The history record of an invocation of `hook` by p that starts now.
Started(p, hook, chk) ==
    [seq |-> calls + 1, proc |-> p, hook |-> hook, context |-> context[p],
     ident |-> ident[p],
     size |-> ramdisk_size[p], alloc |-> chk.alloc,
     directory |-> chk.directory, ops |-> chk.ops, ret |-> "",
     fault |-> "", outside |-> Cardinality(Failed(chk.ops)),
     before |-> Disk, after |-> Disk]

\* A hook starts and runs up to its stat() call, or returns before it.
Enter(p, hook, chk, place) ==
    /\ pc[p] \in {"options", "idle"}
    /\ calls < MaxCalls
    /\ calls' = calls + 1
    /\ faults + Cardinality(Failed(chk.ops)) <= MaxFaults
    /\ faults' = faults + Cardinality(Failed(chk.ops))
    /\ env' = IF chk.setenv THEN [env EXCEPT ![p] = chk.directory] ELSE env
    /\ parsed' = NoParse
    /\ IF chk.ret = ""
       THEN /\ pc' = [pc EXCEPT ![p] = place]
            /\ frame' = [frame EXCEPT ![p] =
                            [directory |-> chk.directory, uid |-> chk.uid,
                             gid |-> chk.gid]]
            /\ cur' = [cur EXCEPT ![p] = Started(p, hook, chk)]
            /\ last' = last
       ELSE /\ pc' = [pc EXCEPT ![p] = "idle"]
            /\ last' = [Started(p, hook, chk) EXCEPT
                            !.ret = chk.ret, !.fault = chk.fault]
            /\ UNCHANGED <<frame, cur>>
    /\ UNCHANGED <<context, ident, ramdisk_size, nodes, mtab, options>>

\* slurm_spank_init_post_opt, lines 76-134, with the bridge answering one
\* of `answers`.
ProvisionEnter(p, answers) ==
    \E in \in answers :
        Enter(p, "Provision",
              ProvisionChecks(context[p], ramdisk_size[p], ident[p], in),
              "p_stat")

\* Lines 136-146: stat() finds a directory, something else, or nothing.  It
\* cannot succeed on a missing path; it can fail on one that is there.
ProvisionStat(p) ==
    /\ pc[p] = "p_stat"
    /\ \E ok \in BOOLEAN :
        /\ Outcome(ok, Exists(frame[p].directory))
        /\ LET kind == IF ok THEN nodes[frame[p].directory] ELSE ""
               next == ProvisionAfterStat(ok, kind)
           IN  IF next \in {"p_mkdir", "p_mount"}
               THEN Continue(p, next, <<<<"stat", ok>>>>)
               ELSE Return(p, next,
                           IF next = "ESPANK_ERROR" THEN "notdir" ELSE "",
                           <<<<"stat", ok>>>>, Disk)
    /\ UNCHANGED <<context, ident, ramdisk_size, env, nodes, mtab, options,
                   calls, parsed>>

\* Lines 148-152: mkdir() succeeds only where nothing is.
ProvisionMkdir(p) ==
    /\ pc[p] = "p_mkdir"
    /\ \E ok \in BOOLEAN :
        /\ Outcome(ok, ~Exists(frame[p].directory))
        /\ IF ok
           THEN /\ nodes' = (frame[p].directory :> "dir") @@ nodes
                /\ Continue(p, "p_mount", <<<<"mkdir", TRUE>>>>)
           ELSE /\ nodes' = nodes
                /\ Return(p, "ESPANK_ERROR", "mkdir",
                          <<<<"mkdir", FALSE>>>>, Disk)
    /\ UNCHANGED <<context, ident, ramdisk_size, env, mtab, options, calls,
                   parsed>>

\* Lines 154-164: mount() of a tmpfs on the directory; a mount on a mount
\* point stacks on top of it.
ProvisionMount(p) ==
    LET dir   == frame[p].directory
        entry == [dir |-> dir,
                  data |-> MountOptions(ramdisk_size[p], frame[p].uid,
                                        frame[p].gid)]
    IN  /\ pc[p] = "p_mount"
        /\ \E ok \in BOOLEAN :
            /\ Outcome(ok, Exists(dir) /\ nodes[dir] = "dir")
            /\ IF ok
               THEN /\ mtab' = Append(mtab, entry)
                    /\ Return(p, "ESPANK_SUCCESS", "",
                              <<<<"mount", TRUE>>>>,
                              [nodes |-> nodes, mtab |-> Append(mtab, entry)])
               ELSE /\ mtab' = mtab
                    /\ Return(p, "ESPANK_ERROR", "mount",
                              <<<<"mount", FALSE>>>>, Disk)
        /\ UNCHANGED <<context, ident, ramdisk_size, env, nodes, options,
                       calls, parsed>>

\* slurm_spank_exit, lines 168-187, with the bridge answering one of
\* `answers`.
TeardownEnter(p, answers) ==
    \E in \in answers :
        Enter(p, "Teardown",
              TeardownChecks(context[p], ramdisk_size[p], ident[p], in),
              "t_stat")

\* Lines 189-195.
TeardownStat(p) ==
    /\ pc[p] = "t_stat"
    /\ \E ok \in BOOLEAN :
        /\ Outcome(ok, Exists(frame[p].directory))
        /\ LET next == TeardownAfterStat(ok)
           IN  IF next = "t_umount"
               THEN Continue(p, next, <<<<"stat", ok>>>>)
               ELSE Return(p, next, "", <<<<"stat", ok>>>>, Disk)
    /\ UNCHANGED <<context, ident, ramdisk_size, env, nodes, mtab, options,
                   calls, parsed>>

\* Lines 197-204: umount() detaches the topmost mount at the path and fails
\* when there is none; on failure the node drain is requested through
\* system().
TeardownUmount(p) ==
    LET dir == frame[p].directory
        at  == MountsAt(mtab, dir)
    IN  /\ pc[p] = "t_umount"
        /\ \E ok \in BOOLEAN :
            /\ Outcome(ok, at # {})
            /\ LET left == IF ok THEN WithoutMount(mtab, Max(at)) ELSE mtab
                   ops  == IF ok
                           THEN <<<<"umount", TRUE>>>>
                           ELSE <<<<"umount", FALSE>>, <<"system", TRUE>>>>
                   next == TeardownAfterUmount(ok)
               IN  /\ mtab' = left
                   /\ IF next = "t_rmdir"
                      THEN Continue(p, next, ops)
                      ELSE Return(p, next, "umount", ops,
                                  [nodes |-> nodes, mtab |-> left])
        /\ UNCHANGED <<context, ident, ramdisk_size, env, nodes, options,
                       calls, parsed>>

\* Lines 206-211: rmdir() removes a directory that is not a mount point; its
\* failure is logged and the hook still succeeds.
TeardownRmdir(p) ==
    LET dir == frame[p].directory
    IN  /\ pc[p] = "t_rmdir"
        /\ \E ok \in BOOLEAN :
            /\ Outcome(ok, /\ Exists(dir)
                            /\ nodes[dir] = "dir"
                            /\ MountsAt(mtab, dir) = {})
            /\ IF ok
               THEN LET left == [q \in DOMAIN nodes \ {dir} |-> nodes[q]]
                    IN  /\ nodes' = left
                        /\ Return(p, TeardownAfterRmdir(ok), "",
                                  <<<<"rmdir", TRUE>>>>,
                                  [nodes |-> left, mtab |-> mtab])
               ELSE /\ nodes' = nodes
                    /\ Return(p, TeardownAfterRmdir(ok), "",
                              <<<<"rmdir", FALSE>>>>, Disk)
        /\ UNCHANGED <<context, ident, ramdisk_size, env, mtab, options,
                       calls, parsed>>

(***************************************************************************)
(* Specifications.                                                         *)
(***************************************************************************)
\* The identity of process 1 in the lifecycle specifications, and its path.
FirstIdentity == [job_id |-> U32(100), job_stepid |-> U32(0)]

FirstPath ==
    GetDirectory(TRUE, FirstIdentity.job_id, TRUE,
                 FirstIdentity.job_stepid).directory

\* Every process has just loaded the plugin, with a stale SLURM_JOB_RAMDISK
\* in its environment.  Process 1 is the slurmstepd of step 100.0.  Process
\* 2 is a slurmstepd too, of the same step or of the batch step, on a node
\* that holds nothing; or it is the srun or sbatch of step 100.0, on a node
\* that holds a stray file where the ramdisk of the step would go.
Init ==
    /\ context \in {c \in [Procs -> Contexts] : c[1] = "S_CTX_REMOTE"}
    /\ ident \in {d \in [Procs -> Identities] : d[1] = FirstIdentity}
    /\ nodes \in {<<>>, FirstPath :> "file"}
    /\ IF context[2] = "S_CTX_REMOTE"
       THEN nodes = <<>>
       ELSE ident[2] = FirstIdentity /\ nodes # <<>>
    /\ ramdisk_size = [p \in Procs |-> U64(0)]
    /\ env = [p \in Procs |-> "/ramdisks/stale"]
    /\ pc = [p \in Procs |-> "start"]
    /\ frame = [p \in Procs |-> NoFrame]
    /\ mtab = <<>>
    /\ options = 0
    /\ calls = 0
    /\ faults = 0
    /\ cur = [p \in Procs |-> NoCall]
    /\ last = NoCall
    /\ parsed = NoParse

\* No hook is running.
Quiet == \A q \in Procs : pc[q] \in {"start", "options", "idle"}

\* The process has not been given `--ramdisk` yet.
Unasked(p) == IsZero(ramdisk_size[p])

\* The scheduler serialises the hooks of a node: a hook starts when none is
\* running, and runs to its return.  A process is given `--ramdisk` at most
\* once.
Next ==
    \E p \in Procs :
        \/ Quiet /\ SpankInit(p)
        \/ \E optarg \in HookOptargs :
               Quiet /\ Unasked(p) /\ ParseOption(p, optarg)
        \/ Quiet /\ ProvisionEnter(p, ProvisionAnswers)
        \/ ProvisionStat(p)
        \/ ProvisionMkdir(p)
        \/ ProvisionMount(p)
        \/ Quiet /\ TeardownEnter(p, TeardownAnswers)
        \/ TeardownStat(p)
        \/ TeardownUmount(p)
        \/ TeardownRmdir(p)

Spec == Init /\ [][Next]_vars

\* The answers of a bridge that delivers everything, to a step that is
\* allocated more than it asks for.
GrantedAnswers == {[NoAnswers EXCEPT !.alloc = U64(1025)]}

\* Two slurmstepd processes of step 100.0 on a node that holds nothing.
InitRace ==
    /\ Init
    /\ context[2] = "S_CTX_REMOTE"
    /\ ident[2] = FirstIdentity

\* The hooks of the two processes interleave at their filesystem calls,
\* which may fail; the bridge delivers everything.
NextRace ==
    \E p \in Procs :
        \/ SpankInit(p)
        \/ \E optarg \in HookOptargs : Unasked(p) /\ ParseOption(p, optarg)
        \/ ProvisionEnter(p, GrantedAnswers)
        \/ ProvisionStat(p)
        \/ ProvisionMkdir(p)
        \/ ProvisionMount(p)
        \/ TeardownEnter(p, {NoAnswers})
        \/ TeardownStat(p)
        \/ TeardownUmount(p)
        \/ TeardownRmdir(p)

SpecRace == InitRace /\ [][NextRace]_vars

(***************************************************************************)
(* The Size Parser on its own: process 1 is given any of the arguments      *)
(* Optargs, several times over.                                            *)
(***************************************************************************)
\* The integers of the arguments: 0, small ones, one with leading zeros,
\* and those around 2^54 (where 1024 * N reaches 2^64) and at 2^64 - 1.
Numerals ==
    {"0", "1", "5", "007", "2048", "18014398509481983",
     "18014398509481984", "18014398509481985", "18446744073709551615"}

\* What follows the integer: nothing, a unit, another character, or more
\* than one character.
Trailers == {"", "M", "G", "K", "m", "MM", "GK", "MG", "KM"}

\* Arguments that do not start with an integer, and signed or padded ones.
OddOptargs == {"", "abc", "M", "G5", " ", "-", " 5G", "+5M", "-1", "5 "}

Optargs ==
    {n \o t : n \in Numerals, t \in Trailers} \cup OddOptargs

InitParser ==
    /\ Init
    /\ context = [p \in Procs |-> "S_CTX_REMOTE"]
    /\ ident = [p \in Procs |-> FirstIdentity]
    /\ nodes = <<>>

NextParser ==
    \/ SpankInit(1)
    \/ \E optarg \in Optargs : ParseOption(1, optarg)

SpecParser == InitParser /\ [][NextParser]_vars

(***************************************************************************)
(* The Path Resolver on its own: process 1 tears down for any of the       *)
(* identities ResolverIdentities on a node that holds no ramdisk.          *)
(***************************************************************************)
ResolverJobIds == {U32(0), U32(42), U32(100), <<1, 34464>>, <<65535, 65535>>}

\* Normal steps up to SLURM_MAX_NORMAL_STEP_ID, the four reserved kinds, and
\* the other values above SLURM_MAX_NORMAL_STEP_ID.
ResolverStepIds ==
    {U32(0), U32(3), <<1, 0>>, <<65535, 65519>>, SLURM_MAX_NORMAL_STEP_ID,
     <<65535, 65521>>, <<65535, 65529>>, SLURM_INTERACTIVE_STEP,
     SLURM_BATCH_SCRIPT, SLURM_EXTERN_CONT, SLURM_PENDING_STEP,
     <<65535, 65534>>, <<65535, 65535>>}

ResolverIdentities ==
    [job_id : ResolverJobIds, job_stepid : ResolverStepIds]

InitResolver ==
    /\ context = [p \in Procs |-> "S_CTX_REMOTE"]
    /\ \E id \in ResolverIdentities : ident = [p \in Procs |-> id]
    /\ ramdisk_size = [p \in Procs |-> U64(0)]
    /\ env = [p \in Procs |-> "/ramdisks/stale"]
    /\ pc = [p \in Procs |-> "start"]
    /\ frame = [p \in Procs |-> NoFrame]
    /\ nodes = <<>>
    /\ mtab = <<>>
    /\ options = 0
    /\ calls = 0
    /\ faults = 0
    /\ cur = [p \in Procs |-> NoCall]
    /\ last = NoCall
    /\ parsed = NoParse

NextResolver ==
    \/ SpankInit(1)
    \/ \E optarg \in HookOptargs : ParseOption(1, optarg)
    \/ TeardownEnter(1, TeardownAnswers)
    \/ TeardownStat(1)

SpecResolver == InitResolver /\ [][NextResolver]_vars

(***************************************************************************)
(* Properties of the hooks.  They read the history: `last` is the          *)
(* invocation that returned last, with the calls it made (ops), the        *)
(* filesystem it found (before) and left (after), and the number of its    *)
(* calls that failed for an outside reason (outside).                      *)
(***************************************************************************)
IsCall(r) == r.hook # "none"

\* The invocation made the call `name`; the call succeeded.
Called(r, name) == CallsOf(r.ops, name) # {}

Did(r, name) == \E i \in CallsOf(r.ops, name) : r.ops[i][2]

FsCalls == {"stat", "mkdir", "mount", "umount", "system", "rmdir"}

\* What the SPANK bridge answered to the invocation, in order.
BridgeOps(r) == SelectSeq(r.ops, LAMBDA o : o[1] \notin FsCalls)

\* r2 is an invocation of the same hook as r with the same inputs: role,
\* identity, capacity, allocation and bridge answers.
SameInputs(r, r2) ==
    /\ r2.hook = r.hook
    /\ r2.context = r.context
    /\ r2.ident = r.ident
    /\ r2.size = r.size
    /\ r2.alloc = r.alloc
    /\ BridgeOps(r2) = BridgeOps(r)

\* The path of an identity.
PathOf(id) == GetDirectory(TRUE, id.job_id, TRUE, id.job_stepid).directory

\* The invocation changed nothing on the node and succeeded.
Noop(r) ==
    /\ r.ret = "ESPANK_SUCCESS"
    /\ \A name \in FsCalls \ {"stat"} : ~Called(r, name)
    /\ r.after = r.before

\* The Provision created and mounted its directory.
Provisioned(r) ==
    /\ r.hook = "Provision"
    /\ r.ret = "ESPANK_SUCCESS"
    /\ Did(r, "mkdir")
    /\ Did(r, "mount")

\* C1: when a Provision has created and mounted the ramdisk, the Provision
\* that follows it with the same inputs, whose stat() finds the directory,
\* returns success, makes no mkdir() and no mount(), and leaves the node as
\* it found it, with exactly one mount at the path.
C1_SecondProvisionIsNoop ==
    [][(/\ Provisioned(last)
        /\ last' # last
        /\ SameInputs(last, last')
        /\ Did(last', "stat"))
       => /\ Noop(last')
          /\ Cardinality(MountsAt(last'.after.mtab, last'.directory)) = 1]_vars

\* The second of two calls is a Provision that found its directory mounted
\* once, with no outside failure in the run.
C1_Witness ==
    /\ last.hook = "Provision"
    /\ calls = 2
    /\ faults = 0
    /\ last.seq = 2
    /\ Did(last, "stat")
    /\ last.ret = "ESPANK_SUCCESS"
    /\ Cardinality(MountsAt(last.before.mtab, last.directory)) = 1

\* The Teardown unmounted and removed its directory.
Removed(r) ==
    /\ r.hook = "Teardown"
    /\ Did(r, "umount")
    /\ Did(r, "rmdir")

\* The Teardown resolved its path and nothing was there.
AbsentTeardown(r) ==
    /\ r.hook = "Teardown"
    /\ r.directory # ""
    /\ r.directory \notin DOMAIN r.before.nodes

\* C2: a Teardown whose path is absent returns success with no umount(), no
\* rmdir() and no drain; so does the Teardown that follows, with the same
\* identity, a Teardown that unmounted and removed the directory.
C2_TeardownOfAbsentPathIsNoop ==
    [][/\ AbsentTeardown(last') => Noop(last')
       /\ (Removed(last) /\ last' # last /\ SameInputs(last, last'))
              => AbsentTeardown(last') /\ Noop(last')]_vars

\* The third of three calls is a Teardown that found nothing, by a process
\* that has exported the path, with no outside failure in the run: the path
\* was provisioned and then removed by the Teardown before.
C2_Witness ==
    /\ last.hook = "Teardown"
    /\ calls = 3
    /\ faults = 0
    /\ last.seq = 3
    /\ AbsentTeardown(last)
    /\ env[last.proc] = last.directory
    /\ last.ret = "ESPANK_SUCCESS"

\* C3: at any time, however the hooks of the processes interleave, a path
\* carries at most one mount.
C3_OneMountPerPath ==
    \A i, j \in 1..Len(mtab) : mtab[i].dir = mtab[j].dir => i = j

\* Two hooks are under way on a path that carries a mount.
C3_Witness ==
    /\ mtab # <<>>
    /\ \A p \in Procs :
           /\ pc[p] \notin {"start", "options", "idle"}
           /\ frame[p].directory = mtab[1].dir

\* The invocation ran outside the remote role or with capacity 0.
Gated(r) == IsCall(r) /\ (r.context # "S_CTX_REMOTE" \/ IsZero(r.size))

\* C4: an invocation of either hook outside the remote role, or with
\* capacity 0, returns success at once: it makes no call, exports nothing
\* and leaves the filesystem alone, whatever is at the path.
C4_GatedHooksDoNothing ==
    [][(last' # last /\ Gated(last'))
       => /\ last'.ret = "ESPANK_SUCCESS"
          /\ last'.ops = <<>>
          /\ last'.after = last'.before
          /\ UNCHANGED <<env, nodes, mtab>>]_vars

\* A Teardown with capacity 0 returned while its path carried a ramdisk.
C4_Witness ==
    /\ last.hook = "Teardown"
    /\ last.context = "S_CTX_REMOTE"
    /\ IsZero(last.size)
    /\ MountsAt(mtab, PathOf(last.ident)) # {}

\* The Provision passed the gates and was told the step's allocation.
Measured(r) ==
    /\ r.hook = "Provision"
    /\ r.context = "S_CTX_REMOTE"
    /\ ~IsZero(r.size)
    /\ Did(r, "S_STEP_ALLOC_MEM")

\* The Provision asked for less than the allocation, found nothing at its
\* path, and none of its calls failed for an outside reason.
Unhindered(r) ==
    /\ Measured(r)
    /\ r.outside = 0
    /\ NumLess(r.size, r.alloc)
    /\ r.directory \notin DOMAIN r.before.nodes

\* C5: a Provision is refused for its capacity exactly when the capacity is
\* at or above the step's allocation, and then it fails without touching
\* the node; with a capacity below the allocation (so at allocation - 1),
\* the path absent and every later call succeeding, it creates and mounts
\* the ramdisk and succeeds.
C5_CapacityBoundary ==
    Measured(last) =>
        /\ (last.fault = "capacity") <=> NumLeq(last.alloc, last.size)
        /\ last.size = last.alloc => last.fault = "capacity"
        /\ last.fault = "capacity" =>
               /\ last.ret = "ESPANK_ERROR"
               /\ last.after = last.before
               /\ \A name \in FsCalls \cup {"spank_setenv"} :
                      ~Called(last, name)
        /\ Unhindered(last) => Provisioned(last)
        /\ (last.outside = 0 /\ MulAdd(last.size, 1, 1) = last.alloc
                /\ last.directory \notin DOMAIN last.before.nodes)
               => Provisioned(last)

\* A Provision was refused with its capacity equal to the allocation.
C5_Witness ==
    /\ Measured(last)
    /\ last.size = last.alloc
    /\ last.ret = "ESPANK_ERROR"
    /\ last.before.nodes = <<>>

\* C6: a Teardown whose stat() finds the path and whose umount() fails
\* returns failure, requests the node drain exactly once, makes no rmdir()
\* and leaves the directory and the mounts as they were.
C6_FailedUmountDrains ==
    (/\ last.hook = "Teardown"
     /\ Did(last, "stat")
     /\ Called(last, "umount")
     /\ ~Did(last, "umount"))
    => /\ last.ret = "ESPANK_ERROR"
       /\ Cardinality(CallsOf(last.ops, "system")) = 1
       /\ ~Called(last, "rmdir")
       /\ last.directory \in DOMAIN last.after.nodes
       /\ last.after = last.before

\* The umount() of a mounted ramdisk failed.
C6_Witness ==
    /\ last.hook = "Teardown"
    /\ Called(last, "umount")
    /\ ~Did(last, "umount")
    /\ MountsAt(last.before.mtab, last.directory) # {}

\* The mount data asks for a tmpfs of `size` megabytes.
SizedInMegabytes(data, size) ==
    LET e == SkipDigits(data, 6)
    IN  /\ SubSeq(data, 1, 5) = "size="
        /\ e > 6
        /\ DigitsValue(SubSeq(data, 6, e - 1)) = size
        /\ SubSeq(data, e, e + 1) = "M,"

\* A Provision from an absent path, with 0 < capacity < allocation and every
\* call succeeding, leaves the directory of its identity with one tmpfs of
\* `capacity` megabytes on it and that path in the job environment.
ProvisionedRight ==
    Unhindered(last) =>
        LET dir == last.directory
            at  == MountsAt(last.after.mtab, dir)
        IN  /\ Provisioned(last)
            /\ dir = PathOf(last.ident)
            /\ last.ident = FirstIdentity => dir = "/ramdisks/100.0.ramdisk"
            /\ dir \in DOMAIN last.after.nodes
            /\ last.after.nodes[dir] = "dir"
            /\ Cardinality(at) = 1
            /\ \A i \in at : SizedInMegabytes(last.after.mtab[i].data,
                                              last.size)
            /\ env[last.proc] = dir

\* C7: a Provision from an absent path with every call succeeding leaves
\* exactly one ramdisk of the requested capacity at the path of the identity
\* and exports that path; the Teardown that follows with the same identity,
\* its umount() and rmdir() succeeding, leaves no mount and no directory
\* there.
C7_RoundTrip ==
    /\ []ProvisionedRight
    /\ [][(/\ Unhindered(last)
           /\ Provisioned(last)
           /\ last' # last
           /\ last'.hook = "Teardown"
           /\ last'.ident = last.ident
           /\ last'.context = last.context
           /\ last'.size = last.size
           /\ last'.outside = 0)
          => /\ last'.ret = "ESPANK_SUCCESS"
             /\ Removed(last')
             /\ last'.directory = last.directory
             /\ last.directory \notin DOMAIN last'.after.nodes
             /\ MountsAt(last'.after.mtab, last.directory) = {}]_vars

\* The second of two calls is a Teardown that unmounted and removed a
\* ramdisk, with no outside failure in the run, and the node is empty again.
C7_Witness ==
    /\ last.hook = "Teardown"
    /\ calls = 2
    /\ faults = 0
    /\ last.seq = 2
    /\ Removed(last)
    /\ MountsAt(last.before.mtab, last.directory) # {}
    /\ nodes = <<>>
    /\ mtab = <<>>

(***************************************************************************)
(* Properties of the Size Parser.  They read `parsed`, the last call of    *)
(* the option callback: its argument, its return value and the capacity    *)
(* before and after it.                                                    *)
(***************************************************************************)
\* C8: for every integer N >= 1 that fits 64 bits, "N" and "NM" are accepted
\* and store N, and "NG" is accepted and stores 1024 * N (mod 2^64).
\* parse_ramdisk_size does not do this for N = 2^54: 1024 * N wraps to 0 and
\* "18014398509481984G" is rejected as a ramdisk of 0M.
C8_ParserValues ==
    \A n \in Numerals :
        LET N == DigitsValue(n)
        IN  ~IsZero(N) =>
                /\ parsed.optarg \in {n, n \o "M"} =>
                       /\ parsed.ret = "ESPANK_SUCCESS"
                       /\ parsed.after = N
                /\ parsed.optarg = n \o "G" =>
                       /\ parsed.ret = "ESPANK_SUCCESS"
                       /\ parsed.after = MulAdd(N, 1024, 0)

\* C9: the parser rejects an integer of value 0, an integer followed by a
\* character other than M or G, an integer followed by more than one
\* character, and an argument that does not start with an integer.
\* parse_ramdisk_size does not reject the third kind: sscanf reads one
\* character after the integer and the rest is never looked at, so "5MM" is
\* accepted as 5M.
C9_ParserRejections ==
    /\ \A n \in Numerals, t \in Trailers :
           (/\ parsed.optarg = n \o t
            /\ \/ IsZero(DigitsValue(n))
               \/ (t # "" /\ Char(t, 1) \notin {"M", "G"})
               \/ Len(t) > 1)
           => parsed.ret = "ESPANK_ERROR"
    /\ parsed.optarg \in {"abc", "M", "G5"} /\ parsed.proc # 0
           => parsed.ret = "ESPANK_ERROR"

(***************************************************************************)
(* Properties of the Path Resolver, read from the Teardown invocations of  *)
(* SpecResolver: the one that returned last and the one under way.         *)
(***************************************************************************)
\* str is the decimal numeral, without leading zeros, of the 32-bit x.
Decimal(str, x) ==
    /\ str # ""
    /\ SkipDigits(str, 1) = Len(str) + 1
    /\ Len(str) = 1 \/ Char(str, 1) # "0"
    /\ DigitsValue(str) = <<0, 0>> \o x

\* dir is "/ramdisks/{job}" followed by suffix.
JobPath(dir, job, suffix) ==
    LET dot == SkipDigits(dir, 11)
    IN  /\ Len(dir) > 10
        /\ SubSeq(dir, 1, 10) = "/ramdisks/"
        /\ Decimal(SubSeq(dir, 11, dot - 1), job)
        /\ SubSeq(dir, dot, Len(dir)) = suffix

\* dir is "/ramdisks/{job}.{step}.ramdisk".
StepPath(dir, job, step) ==
    LET dot == SkipDigits(dir, 11)
        end == SkipDigits(dir, dot + 1)
    IN  /\ Len(dir) > 10
        /\ SubSeq(dir, 1, 10) = "/ramdisks/"
        /\ Decimal(SubSeq(dir, 11, dot - 1), job)
        /\ dot < Len(dir)
        /\ Char(dir, dot) = "."
        /\ Decimal(SubSeq(dir, dot + 1, end - 1), step)
        /\ SubSeq(dir, end, Len(dir)) = ".ramdisk"

\* The invocation asked for its path and the bridge gave it both ids.
Resolving(r) ==
    /\ IsCall(r)
    /\ Did(r, "S_JOB_ID")
    /\ Did(r, "S_JOB_STEPID")

\* The path get_directory has to give the invocation.
ResolvedRight(r) ==
    LET job   == r.ident.job_id
        step  == r.ident.job_stepid
        dir   == r.directory
        fails == /\ dir = ""
                 /\ r.ret = "ESPANK_ERROR"
                 /\ r.fault = "directory"
    IN  /\ IF NumLeq(step, SLURM_MAX_NORMAL_STEP_ID)
           THEN StepPath(dir, job, step)
           ELSE IF step = SLURM_EXTERN_CONT
           THEN JobPath(dir, job, ".extern.ramdisk")
           ELSE IF step = SLURM_BATCH_SCRIPT
           THEN JobPath(dir, job, ".batch.ramdisk")
           ELSE IF step = SLURM_INTERACTIVE_STEP
           THEN JobPath(dir, job, ".interactive.ramdisk")
           ELSE fails
        /\ (job = U32(42) /\ step = U32(3)) => dir = "/ramdisks/42.3.ramdisk"
        /\ (job = U32(42) /\ step = SLURM_EXTERN_CONT)
               => dir = "/ramdisks/42.extern.ramdisk"
        /\ (job = U32(42) /\ step = SLURM_PENDING_STEP) => fails

\* C10: for every job id and step id, get_directory gives
\* /ramdisks/{job}.{step}.ramdisk for a step id up to
\* SLURM_MAX_NORMAL_STEP_ID, /ramdisks/{job}.extern.ramdisk,
\* /ramdisks/{job}.batch.ramdisk and /ramdisks/{job}.interactive.ramdisk for
\* the three reserved kinds, and an error for the pending step and for every
\* other step id; two invocations with the same identity get the same path.
C10_PathResolver ==
    /\ \A r \in {last} \cup {cur[p] : p \in Procs} :
           Resolving(r) => ResolvedRight(r)
    /\ \A p \in Procs :
           (Resolving(cur[p]) /\ Resolving(last)
                /\ cur[p].ident = last.ident)
           => cur[p].directory = last.directory

\* The second invocation for the largest job id and the largest normal step
\* id has its path.
C10_Witness ==
    /\ IsCall(last)
    /\ last.seq = 2
    /\ last.ident.job_stepid = SLURM_MAX_NORMAL_STEP_ID
    /\ last.directory = "/ramdisks/4294967295.4294967280.ramdisk"

\* C11: two distinct identities that both resolve never resolve to the same
\* path: the path of the invocation that returned last differs from the
\* path get_directory gives any other identity.
C11_PathsDoNotCollide ==
    (Resolving(last) /\ last.directory # "") =>
        \A id \in ResolverIdentities \ {last.ident} :
            LET other == GetDirectory(TRUE, id.job_id, TRUE, id.job_stepid)
            IN  other.rc = "EXIT_SUCCESS"
                    => other.directory # last.directory

\* The path of the extern step of job 42 was resolved, next to those of its
\* batch step and its step 3.
C11_Witness ==
    /\ Resolving(last)
    /\ last.directory = "/ramdisks/42.extern.ramdisk"
    /\ \A step \in {SLURM_BATCH_SCRIPT, U32(3)} :
           GetDirectory(TRUE, U32(42), TRUE, step).rc = "EXIT_SUCCESS"

\* C12: a Provision whose stat() finds something other than a directory at
\* its path returns failure, makes no mkdir(), no mount() and no drain
\* request, and leaves the entry and the rest of the node as they were.
C12_PathConflict ==
    (/\ last.hook = "Provision"
     /\ Did(last, "stat")
     /\ last.before.nodes[last.directory] # "dir")
    => /\ last.ret = "ESPANK_ERROR"
       /\ \A name \in {"mkdir", "mount", "system"} : ~Called(last, name)
       /\ last.after = last.before
       /\ last.after.nodes[last.directory] = "file"

\* A Provision found the stray file at its path.
C12_Witness ==
    /\ last.hook = "Provision"
    /\ Did(last, "stat")
    /\ last.directory \in DOMAIN last.before.nodes
    /\ last.before.nodes[last.directory] = "file"
    /\ nodes[last.directory] = "file"

\* The Provision created its directory and its mount() failed.
MountFailed(r) ==
    /\ r.hook = "Provision"
    /\ Did(r, "mkdir")
    /\ Called(r, "mount")
    /\ ~Did(r, "mount")

\* A Provision whose mount() failed returns failure and leaves its directory
\* behind, without a mount.
NoRollback ==
    MountFailed(last) =>
        /\ last.ret = "ESPANK_ERROR"
        /\ last.directory \in DOMAIN last.after.nodes
        /\ MountsAt(last.after.mtab, last.directory) = {}

\* C13: the Teardown that follows, with the same identity, a Provision whose
\* mkdir() succeeded and whose mount() failed returns success, requests no
\* drain and leaves the path absent.  slurm_spank_exit does not do this: its
\* umount() of the directory, which carries no mount, fails, so it requests
\* the drain, returns failure and leaves the directory.
C13_TeardownAfterFailedMount ==
    [][(/\ MountFailed(last)
        /\ last' # last
        /\ last'.hook = "Teardown"
        /\ last'.ident = last.ident
        /\ last'.context = last.context
        /\ last'.size = last.size
        /\ last'.outside = 0)
       => /\ last'.ret = "ESPANK_SUCCESS"
          /\ ~Called(last', "system")
          /\ last.directory \notin DOMAIN last'.after.nodes]_vars

\* What a filesystem holds at a path: the kind of the entry and the mounts.
AtPath(disk, path) ==
    [kind   |-> IF path \in DOMAIN disk.nodes THEN disk.nodes[path]
                ELSE "absent",
     mounts |-> {disk.mtab[i] : i \in MountsAt(disk.mtab, path)}]

\* The umount() of the Teardown failed.
UmountFailed(r) ==
    /\ r.hook = "Teardown"
    /\ Called(r, "umount")
    /\ ~Did(r, "umount")

\* An invocation moves the mount of its path from absent to provisioned
\* (Provision) or from provisioned to absent (Teardown), or leaves it.
MountSteps ==
    (IsCall(last) /\ last.directory # "") =>
        LET was == AtPath(last.before, last.directory).mounts
            is  == AtPath(last.after, last.directory).mounts
        IN  \/ is = was
            \/ last.hook = "Provision" /\ was = {} /\ Cardinality(is) = 1
            \/ last.hook = "Teardown" /\ Cardinality(was) = 1 /\ is = {}

\* C14: the mount of an identity goes from absent to provisioned and back,
\* and once the umount() of a Teardown has failed the next invocation of
\* either hook for the identity leaves the mount and the directory of the
\* path as they are.  slurm_spank_exit keeps no record of the failure: the
\* next Teardown calls umount() again, and when that succeeds it removes the
\* ramdisk.
C14_UnmountFailedIsTerminal ==
    /\ []MountSteps
    /\ [][(/\ UmountFailed(last)
           /\ last' # last
           /\ last'.ident = last.ident)
          => AtPath(last'.after, last.directory)
                 = AtPath(last.after, last.directory)]_vars

\* The umount() of the Teardown succeeded and its rmdir() failed.
RmdirFailed(r) ==
    /\ r.hook = "Teardown"
    /\ Did(r, "umount")
    /\ Called(r, "rmdir")
    /\ ~Did(r, "rmdir")

\* C15: a Teardown whose umount() succeeds and whose rmdir() fails returns
\* success and requests no drain; it leaves the directory, with no mount on
\* it.
C15_FailedRmdirIsNotFatal ==
    RmdirFailed(last) =>
        /\ last.ret = "ESPANK_SUCCESS"
        /\ ~Called(last, "system")
        /\ AtPath(last.after, last.directory) = [kind |-> "dir", mounts |-> {}]
        /\ AtPath(last.before, last.directory).mounts # {}

\* The rmdir() of a Teardown failed and the directory is still on the node,
\* unmounted.
C15_Witness ==
    /\ RmdirFailed(last)
    /\ last.directory \in DOMAIN nodes
    /\ MountsAt(mtab, last.directory) = {}

\* A precondition of the Provision failed: the allocation could not be read,
\* the capacity is at or above it, the path could not be resolved, or the
\* uid of the job could not be read.
FailedCheck(r) ==
    /\ r.hook = "Provision"
    /\ ~Gated(r)
    /\ \/ ~Did(r, "S_STEP_ALLOC_MEM")
       \/ NumLeq(r.alloc, r.size)
       \/ ~Did(r, "S_JOB_ID")
       \/ ~Did(r, "S_JOB_STEPID")
       \/ r.directory = ""
       \/ ~Did(r, "S_JOB_UID")

\* C16: a Provision one of whose preconditions fails (allocation query,
\* capacity at or above the allocation, path resolver, uid of the job)
\* returns failure, makes no filesystem call and leaves the node as it found
\* it; so mkdir() and mount() happen only after every check has passed.
C16_FailFastWithoutMutation ==
    FailedCheck(last) =>
        /\ last.ret = "ESPANK_ERROR"
        /\ last.fault \in {"allocation", "capacity", "directory", "uid"}
        /\ \A name \in FsCalls : ~Called(last, name)
        /\ last.after = last.before

\* A Provision stopped at the last check, the uid of the job, with its path
\* resolved and nothing at it.
C16_Witness ==
    /\ FailedCheck(last)
    /\ Called(last, "S_JOB_UID")
    /\ last.directory # ""
    /\ last.directory \notin DOMAIN nodes

\* The Provision read the uid of the job, and the gid could not be read or
\* the export of SLURM_JOB_RAMDISK failed; nothing was at its path, and
\* neither mkdir() nor mount() failed.
OwnerPartlyKnown(r) ==
    /\ r.hook = "Provision"
    /\ Did(r, "S_JOB_UID")
    /\ ~Did(r, "S_JOB_GID") \/ ~Did(r, "spank_setenv")
    /\ r.directory \notin DOMAIN r.before.nodes
    /\ Called(r, "mkdir") => Did(r, "mkdir")
    /\ Called(r, "mount") => Did(r, "mount")

\* The mount data that line 156 writes for a mount whose gid is unknown
\* (gid = -1, line 129).
DataWithoutGroup(r) ==
    {MountOptions(r.size, uid, Negate(U32(1))) : uid \in Uids}

\* C17: a Provision that cannot read the uid of the job fails; one that
\* cannot read the gid, or cannot export SLURM_JOB_RAMDISK, goes on: with
\* nothing at the path and mkdir() and mount() succeeding it creates the
\* directory and the one mount and returns success, and the mount of a
\* Provision without a gid is made with gid -1, the group of no job.
C17_OwnerAsymmetry ==
    /\ (last.hook = "Provision" /\ Called(last, "S_JOB_UID")
            /\ ~Did(last, "S_JOB_UID"))
       => last.ret = "ESPANK_ERROR"
    /\ OwnerPartlyKnown(last) =>
        /\ Provisioned(last)
        /\ AtPath(last.after, last.directory).kind = "dir"
        /\ Cardinality(MountsAt(last.after.mtab, last.directory)) = 1
        /\ ~Did(last, "S_JOB_GID") =>
              \A i \in MountsAt(last.after.mtab, last.directory) :
                  last.after.mtab[i].data \in DataWithoutGroup(last)

\* A Provision that could not read the gid has created and mounted the
\* ramdisk.
C17_Witness ==
    /\ OwnerPartlyKnown(last)
    /\ ~Did(last, "S_JOB_GID")
    /\ MountsAt(mtab, last.directory) # {}

\* The last invocation to return was one of two Provisions of the same
\* identity, the other of which (that of process q) is still under way;
\* none of their calls failed for an outside reason.
RacedWith(q) ==
    /\ last.hook = "Provision"
    /\ ~Gated(last)
    /\ calls = 2
    /\ faults = 0
    /\ q # last.proc
    /\ cur[q].hook = "Provision"
    /\ cur[q].ident = last.ident

\* C18: when two Provisions of the same identity interleave at their
\* filesystem calls and no call fails for an outside reason, the one that
\* returns first returns success, and the path never carries two mounts.
C18_RacingProvisionsSucceed ==
    \A q \in Procs :
        RacedWith(q) =>
            /\ last.ret = "ESPANK_SUCCESS"
            /\ Cardinality(MountsAt(mtab, last.directory)) <= 1

\* The stat() of an ungated Provision found a directory, with no mount on
\* it, at its path.
FoundBareDirectory(r) ==
    /\ r.hook = "Provision"
    /\ ~Gated(r)
    /\ Did(r, "stat")
    /\ AtPath(r.before, r.directory) = [kind |-> "dir", mounts |-> {}]

\* C19: a Provision that passes its checks and whose stat() finds a
\* directory at its path returns success without looking for a mount: it
\* makes no mkdir() and no mount() and leaves the node as it found it, so
\* that where the directory carried no mount the Provision has succeeded
\* with no mount at its path.
C19_BareDirectoryCountsAsProvisioned ==
    (last.hook = "Provision" /\ Did(last, "stat")
        /\ AtPath(last.before, last.directory).kind = "dir")
    => /\ Noop(last)
       /\ FoundBareDirectory(last) =>
              MountsAt(last.after.mtab, last.directory) = {}

\* A Provision has returned success on a directory without a mount, and
\* there is still none.
C19_Witness ==
    /\ FoundBareDirectory(last)
    /\ last.ret = "ESPANK_SUCCESS"
    /\ MountsAt(mtab, last.directory) = {}

(***************************************************************************)
(* What the Size Parser leaves behind when it rejects its argument.        *)
(***************************************************************************)
\* Arguments that do not start with an integer.
NoInteger == {"", "abc", "M", "G5", " ", "-"}

\* With capacity `size`, the hooks of a slurmstepd go past their gates: the
\* Provision and the Teardown both ask the bridge.
HooksAct(p, size) ==
    /\ ProvisionChecks("S_CTX_REMOTE", size, ident[p], NoAnswers).ops # <<>>
    /\ TeardownChecks("S_CTX_REMOTE", size, ident[p], NoAnswers).ops # <<>>

\* C20: the option callback stores the integer before it looks at the unit:
\* when it rejects an integer N >= 1 followed by a character other than M
\* and G, ramdisk_size is N, with which the hooks of a slurmstepd are not
\* no-ops; when it rejects an argument that does not start with an integer,
\* ramdisk_size is what it was.
C20_RejectedUnitStoresCapacity ==
    /\ \A n \in Numerals, t \in Trailers :
           (/\ parsed.optarg = n \o t
            /\ ~IsZero(DigitsValue(n))
            /\ t # ""
            /\ Char(t, 1) \notin {UNIT_MEGABYTES, UNIT_GIGABYTES})
           => /\ parsed.ret = "ESPANK_ERROR"
              /\ parsed.after = DigitsValue(n)
              /\ ramdisk_size[parsed.proc] = DigitsValue(n)
              /\ HooksAct(parsed.proc, ramdisk_size[parsed.proc])
    /\ (parsed.proc # 0 /\ parsed.optarg \in NoInteger)
           => /\ parsed.ret = "ESPANK_ERROR"
              /\ parsed.after = parsed.before
              /\ ramdisk_size[parsed.proc] = parsed.before

\* "5K" has been rejected and ramdisk_size, which was 0, is 5.
C20_Witness ==
    /\ parsed.optarg = "5K"
    /\ parsed.ret = "ESPANK_ERROR"
    /\ IsZero(parsed.before)
    /\ ramdisk_size[parsed.proc] = U64(5)

=============================================================================
